---- MODULE Spec2Model ----
(***************************************************************************)
(* Model of DjangoBatchCreateMutation                                      *)
(* (graphene_django_cud/mutations/batch_create.py).                        *)
(*                                                                         *)
(* One invocation of the resolver `mutate` is modelled statement by        *)
(* statement: pc is the position of the call inside mutate.  The           *)
(* overridable hooks (before_mutate, check_permissions, validate,          *)
(* after_create_obj, before_save, after_mutate) and create_obj are calls   *)
(* into code a subclass or the base class supplies; each may raise or      *)
(* return, and the value it returns is drawn from a small set.             *)
(* transaction.atomic() is modelled by a set of pending writes that is     *)
(* added to the database when the block is left normally and discarded     *)
(* when an exception leaves it.                                            *)
(***************************************************************************)
EXTENDS Integers, Sequences, FiniteSets, TLC

\* ---------------------------------------------------------------- bounds
MaxLen == 2                  \* longest input list explored
Data == {"a", "b"}           \* the distinct input records explored

\* ------------------------------------------------------- python values
\* Values the code tests for truthiness or against None: None, booleans,
\* lists and model objects.
PyNone == [kind |-> "none", items |-> <<>>]
PyTrue == [kind |-> "true", items |-> <<>>]
PyFalse == [kind |-> "false", items |-> <<>>]
PyList(s) == [kind |-> "list", items |-> s]
PyObj(o) == [kind |-> "obj", items |-> <<o>>]

\* Python truthiness: None, False and the empty list are falsy.
Truthy(v) ==
    \/ v.kind = "true"
    \/ v.kind = "obj"
    \/ v.kind = "list" /\ Len(v.items) > 0

\* `a or b`: a when a is truthy, else b.
PyOr(a, b) == IF Truthy(a) THEN a ELSE b

\* `a and b`: a when a is falsy, else b.
PyAnd(a, b) == IF Truthy(a) THEN b ELSE a

SeqsUpTo(S, n) == UNION {[1..k -> S] : k \in 0..n}

Range(s) == {s[k] : k \in 1..Len(s)}

\* ------------------------------------------------------------- domains
LoginRequiredValues == {PyNone, PyFalse, PyTrue}
PermissionsValues == {PyNone, PyList(<<>>), PyList(<<"app.add_model">>)}
InputLists == SeqsUpTo(Data, MaxLen)

\* Lists before_mutate may hand back in place of the input.
UpdatedInputs == {<<"b">>, <<"b", "a">>}

LoginError == "Must be logged in to access this mutation."
HookErrors == {"ValidationError", "ValueError"}
NoError == "none"

\* An object of the model: the record it was made from, its primary key,
\* and which routine produced it.
MkObj(d, pk, origin) == [data |-> d, pk |-> pk, origin |-> origin]

\* Rows present before the call.
PreExisting == {MkObj("a", 0, "preexisting")}

\* Objects a hook may hand back in place of a created one.
SubstObj(origin) == MkObj("b", 0, origin)

VARIABLES
    login_required,       \* Meta argument login_required
    permissions,          \* Meta argument permissions
    meta_login_required,  \* cls._meta.login_required
    is_authenticated,     \* info.context.user.is_authenticated
    arg_input,            \* the argument `input` of mutate as passed in
    input,                \* the local `input` of mutate
    i,                    \* position of `data` in the for loop (1-based)
    obj,                  \* the local `obj` of the loop body
    created_objs,         \* the local `created_objs`
    return_data,          \* the local `return_data` (value of the return field)
    txn_open,             \* inside `with transaction.atomic()`
    txn,                  \* writes made inside the open transaction
    db,                   \* committed rows
    next_pk,              \* next primary key the database hands out
    pc,                   \* position of the call inside mutate
    error,                \* exception that left mutate, NoError if none
    log,                  \* the steps taken so far, with their outcomes
    made,                 \* history: objects returned by create_obj, per record
    post,                 \* history: values returned by after_create_obj
    saved,                \* history: value returned by before_save
    am_arg                \* history: created_objs, return_data given to after_mutate

vars == <<login_required, permissions, meta_login_required, is_authenticated,
          arg_input, input, i, obj, created_objs, return_data, txn_open, txn,
          db, next_pk, pc, error, log, made, post, saved, am_arg>>

config == <<login_required, permissions, meta_login_required,
            is_authenticated, arg_input>>

history == <<made, post, saved, am_arg>>

\* -------------------------------------------- __init_subclass_with_meta__
\* login_required alone decides, the permissions list is not looked at.
MetaLoginRequired_IgnoresPermissions(lr, perms) == PyOr(lr, PyFalse)

\* _meta.login_required = login_required or
\*                        (_meta.permissions and len(_meta.permissions) > 0)
MetaLoginRequired(lr, perms) ==
    PyOr(lr, PyAnd(perms, IF Len(perms.items) > 0 THEN PyTrue ELSE PyFalse))

Init ==
    /\ login_required \in LoginRequiredValues
    /\ permissions \in PermissionsValues
    /\ meta_login_required = MetaLoginRequired(login_required, permissions)
    /\ is_authenticated \in BOOLEAN
    /\ arg_input \in InputLists
    /\ input = arg_input
    /\ i = 0
    /\ obj = PyNone
    /\ created_objs = <<>>
    /\ return_data = PyNone
    /\ txn_open = FALSE
    /\ txn = {}
    /\ db = PreExisting
    /\ next_pk = 1
    /\ pc = "before_mutate"
    /\ error = NoError
    /\ log = <<>>
    /\ made = <<>>
    /\ post = <<>>
    /\ saved = PyNone
    /\ am_arg = [created_objs |-> <<>>, return_data |-> PyNone]

\* ------------------------------------------------------------- helpers
Entry(step, idx, out, err) ==
    [step |-> step, idx |-> idx, out |-> out, err |-> err]

\* A step that returned.
Logged(step, idx, out) == log' = Append(log, Entry(step, idx, out, NoError))

\* A step that raised e.
LoggedRaise(step, idx, e) == log' = Append(log, Entry(step, idx, "raise", e))

\* How a returned value is recorded in the log.
OutOf(v) ==
    IF v.kind = "none" THEN "none"
    ELSE IF Truthy(v) THEN "value" ELSE "empty"

\* No enclosing transaction: rows written before the exception stay.
Rollback_KeepsWrites(committed, pending) == committed \cup pending

\* What an exception leaving `with transaction.atomic()` does to the rows
\* written inside the block: they are discarded.
Rollback(committed, pending) == committed

\* What leaving `with transaction.atomic()` normally does.
CommitRows(committed, pending) == committed \cup pending

\* An exception raised outside the atomic block leaves mutate.
Raise(e) ==
    /\ error' = e
    /\ pc' = "raised"

\* An exception raised inside the atomic block: the block is left, the
\* transaction is rolled back, and the exception leaves mutate.
RaiseInAtomic(e) ==
    /\ Raise(e)
    /\ db' = Rollback(db, txn)
    /\ txn' = {}
    /\ txn_open' = FALSE

\* The value a hook returns is dropped.
ReplaceIfTruthy_Never(updated, current) == current

\* `if updated: x = updated` (lines 218-219 and 254-255).
ReplaceIfTruthy(updated, current) ==
    IF Truthy(updated) THEN updated.items ELSE current

\* after_create_obj is tested for truthiness like the other hooks.
ReplaceIfNotNone_Truthy(new_obj, current) ==
    IF Truthy(new_obj) THEN new_obj ELSE current

\* `if new_obj is not None: obj = new_obj` (lines 248-249).
ReplaceIfNotNone(new_obj, current) ==
    IF new_obj.kind # "none" THEN new_obj ELSE current

\* The object is put in front of the list instead of at its end.
Collect_Prepend(objs, o) == <<o>> \o objs

\* `created_objs.append(obj)` (line 251).
Collect(objs, o) == Append(objs, o)

\* The loop stops one record early.
LoopNext_StopsEarly(k, n) == IF k + 1 < n THEN "validate" ELSE "before_save"

\* `for data in input`: the position after the loop body ran for record k.
LoopNext(k, n) == IF k < n THEN "validate" ELSE "before_save"

\* The `not` of the login test is lost.
LoginRejected_NoNegation(lr, authenticated) == Truthy(lr) /\ authenticated

\* The login test of line 221.
LoginRejected(lr, authenticated) == Truthy(lr) /\ ~authenticated

\* ------------------------------------------------------------- actions
\* Lines 217-219.
BeforeMutate ==
    /\ pc = "before_mutate"
    /\ \/ \E e \in HookErrors :
            /\ Raise(e)
            /\ LoggedRaise("before_mutate", 0, e)
            /\ UNCHANGED input
       \/ \E updated_input \in {PyNone, PyList(<<>>)}
                                  \cup {PyList(l) : l \in UpdatedInputs} :
            /\ input' = ReplaceIfTruthy(updated_input, input)
            /\ pc' = "login_check"
            /\ Logged("before_mutate", 0, OutOf(updated_input))
            /\ UNCHANGED error
    /\ UNCHANGED <<config, i, obj, created_objs, return_data, txn_open, txn,
                   db, next_pk, history>>

\* Lines 221-222.
LoginCheck ==
    /\ pc = "login_check"
    /\ IF LoginRejected(meta_login_required, is_authenticated)
       THEN /\ Raise(LoginError)
            /\ LoggedRaise("login_check", 0, LoginError)
       ELSE /\ pc' = "check_permissions"
            /\ Logged("login_check", 0, "none")
            /\ UNCHANGED error
    /\ UNCHANGED <<config, input, i, obj, created_objs, return_data, txn_open,
                   txn, db, next_pk, history>>

\* The failure of check_permissions is swallowed and mutate goes on.
CheckPermissions_Swallowed ==
    /\ pc = "check_permissions"
    /\ \/ \E e \in HookErrors : LoggedRaise("check_permissions", 0, e)
       \/ Logged("check_permissions", 0, "none")
    /\ pc' = "atomic_enter"
    /\ UNCHANGED <<config, input, i, obj, created_objs, return_data, txn_open,
                   txn, db, next_pk, error, history>>

\* Line 224.
CheckPermissions ==
    /\ pc = "check_permissions"
    /\ \/ \E e \in HookErrors :
            /\ Raise(e)
            /\ LoggedRaise("check_permissions", 0, e)
       \/ /\ pc' = "atomic_enter"
          /\ Logged("check_permissions", 0, "none")
          /\ UNCHANGED error
    /\ UNCHANGED <<config, input, i, obj, created_objs, return_data, txn_open,
                   txn, db, next_pk, history>>

\* Lines 229-232: created_objs = [], the atomic block is entered and the
\* loop starts.
AtomicEnter ==
    /\ pc = "atomic_enter"
    /\ created_objs' = <<>>
    /\ txn_open' = TRUE
    /\ txn' = {}
    /\ i' = IF Len(input) > 0 THEN 1 ELSE 0
    /\ pc' = LoopNext(0, Len(input))
    /\ Logged("atomic_enter", 0, "none")
    /\ UNCHANGED <<config, input, obj, return_data, db, next_pk, error,
                   history>>

\* Line 233.
Validate ==
    /\ pc = "validate"
    /\ \/ \E e \in HookErrors :
            /\ RaiseInAtomic(e)
            /\ LoggedRaise("validate", i, e)
       \/ /\ pc' = "create_obj"
          /\ Logged("validate", i, "none")
          /\ UNCHANGED <<error, db, txn, txn_open>>
    /\ UNCHANGED <<config, input, i, obj, created_objs, return_data, next_pk,
                   history>>

\* DjangoCudBase.create_obj: builds the model object from one input record
\* and saves it; the result is the object and the row written.
create_obj(d, pk) ==
    [obj |-> MkObj(d, pk, "create_obj"), rows |-> {MkObj(d, pk, "create_obj")}]

\* create_obj saves outside any transaction: the row is committed at once.
CreateObj_Autocommit ==
    /\ pc = "create_obj"
    /\ \/ \E e \in HookErrors :
            /\ Raise(e)
            /\ LoggedRaise("create_obj", i, e)
            /\ txn_open' = FALSE
            /\ UNCHANGED <<obj, next_pk, made, db, txn>>
       \/ LET c == create_obj(input[i], next_pk) IN
            /\ obj' = PyObj(c.obj)
            /\ db' = db \cup c.rows
            /\ next_pk' = next_pk + 1
            /\ made' = Append(made, c.obj)
            /\ pc' = "after_create_obj"
            /\ Logged("create_obj", i, "created")
            /\ UNCHANGED <<error, txn, txn_open>>
    /\ UNCHANGED <<config, input, i, created_objs, return_data, post, saved,
                   am_arg>>

\* Lines 234-244: the call of create_obj on `data`, inside the transaction.
CreateObj ==
    /\ pc = "create_obj"
    /\ \/ \E e \in HookErrors :
            /\ RaiseInAtomic(e)
            /\ LoggedRaise("create_obj", i, e)
            /\ UNCHANGED <<obj, next_pk, made>>
       \/ LET c == create_obj(input[i], next_pk) IN
            /\ obj' = PyObj(c.obj)
            /\ txn' = txn \cup c.rows
            /\ next_pk' = next_pk + 1
            /\ made' = Append(made, c.obj)
            /\ pc' = "after_create_obj"
            /\ Logged("create_obj", i, "created")
            /\ UNCHANGED <<error, db, txn_open>>
    /\ UNCHANGED <<config, input, i, created_objs, return_data, post, saved,
                   am_arg>>

\* Lines 246-251 and the loop's step.
AfterCreateObj ==
    /\ pc = "after_create_obj"
    /\ \/ \E e \in HookErrors :
            /\ RaiseInAtomic(e)
            /\ LoggedRaise("after_create_obj", i, e)
            /\ UNCHANGED <<obj, created_objs, i, post>>
       \/ \E new_obj \in {PyNone, PyFalse,
                           PyObj(SubstObj("after_create_obj"))} :
            /\ obj' = ReplaceIfNotNone(new_obj, obj)
            /\ created_objs' = Collect(created_objs, obj')
            /\ post' = Append(post, new_obj)
            /\ i' = IF i < Len(input) THEN i + 1 ELSE i
            /\ pc' = LoopNext(i, Len(input))
            /\ Logged("after_create_obj", i, OutOf(new_obj))
            /\ UNCHANGED <<error, db, txn, txn_open>>
    /\ UNCHANGED <<config, input, return_data, next_pk, made, saved, am_arg>>

\* Lines 253-255.
BeforeSave ==
    /\ pc = "before_save"
    /\ \/ \E e \in HookErrors :
            /\ RaiseInAtomic(e)
            /\ LoggedRaise("before_save", 0, e)
            /\ UNCHANGED <<created_objs, saved>>
       \/ \E updated_objs \in {PyNone, PyList(<<>>),
                                PyList(<<PyObj(SubstObj("before_save"))>>)} :
            /\ created_objs' = ReplaceIfTruthy(updated_objs, created_objs)
            /\ saved' = updated_objs
            /\ pc' = "commit"
            /\ Logged("before_save", 0, OutOf(updated_objs))
            /\ UNCHANGED <<error, db, txn, txn_open>>
    /\ UNCHANGED <<config, input, i, obj, return_data, next_pk, made, post,
                   am_arg>>

\* The end of the atomic block, then line 257.
Commit ==
    /\ pc = "commit"
    /\ db' = CommitRows(db, txn)
    /\ txn' = {}
    /\ txn_open' = FALSE
    /\ return_data' = PyList(created_objs)
    /\ pc' = "after_mutate"
    /\ Logged("commit", 0, "none")
    /\ UNCHANGED <<config, input, i, obj, created_objs, next_pk, error,
                   history>>

\* after_mutate is called inside the atomic block: its failure undoes the
\* rows of the invocation.
AfterMutate_InsideAtomic ==
    /\ pc = "after_mutate"
    /\ am_arg' = [created_objs |-> created_objs, return_data |-> return_data]
    /\ \/ \E e \in HookErrors :
            /\ Raise(e)
            /\ LoggedRaise("after_mutate", 0, e)
            /\ db' = db \ Range(made)
       \/ /\ pc' = "returned"
          /\ Logged("after_mutate", 0, "none")
          /\ UNCHANGED <<error, db>>
    /\ UNCHANGED <<config, input, i, obj, created_objs, return_data, txn_open,
                   txn, next_pk, made, post, saved>>

\* Lines 258-259.
AfterMutate ==
    /\ pc = "after_mutate"
    /\ am_arg' = [created_objs |-> created_objs, return_data |-> return_data]
    /\ \/ \E e \in HookErrors :
            /\ Raise(e)
            /\ LoggedRaise("after_mutate", 0, e)
       \/ /\ pc' = "returned"
          /\ Logged("after_mutate", 0, "none")
          /\ UNCHANGED error
    /\ UNCHANGED <<config, input, i, obj, created_objs, return_data, txn_open,
                   txn, db, next_pk, made, post, saved>>

Next ==
    \/ BeforeMutate
    \/ LoginCheck
    \/ CheckPermissions
    \/ AtomicEnter
    \/ Validate
    \/ CreateObj
    \/ AfterCreateObj
    \/ BeforeSave
    \/ Commit
    \/ AfterMutate

Spec == Init /\ [][Next]_vars


\* ------------------------------------------------------ claim vocabulary
Terminal == pc \in {"returned", "raised"}

Steps == 1..Len(log)

Called(step) == \E k \in Steps : log[k].step = step

RaisedBy(step) ==
    /\ Len(log) > 0
    /\ log[Len(log)].step = step
    /\ log[Len(log)].out = "raise"

Hooks == {"before_mutate", "check_permissions", "validate",
          "after_create_obj", "before_save", "after_mutate"}

\* Every hook called so far returned None, as the default hooks do.
HooksDefault ==
    \A k \in Steps : log[k].step \in Hooks => log[k].out = "none"

\* Rows of this invocation that are persisted.
OwnRows == db \ PreExisting

InsideSteps == {"atomic_enter", "validate", "create_obj", "after_create_obj",
                "before_save", "commit"}

LoginRequired == Truthy(meta_login_required)

\* ------------------------------------------------------------------- C1
\* C1: when no hook raises and every hook keeps its default behaviour, a
\* call of mutate on a list of N records creates exactly N objects, one per
\* record, persists them, and returns them in input order: the i-th element
\* of the returned list is the object create_obj made from the i-th record.
C1_OnePerRecordInOrder ==
    (pc = "returned" /\ HooksDefault) =>
        /\ return_data.kind = "list"
        /\ Len(return_data.items) = Len(arg_input)
        /\ Len(made) = Len(arg_input)
        /\ \A k \in 1..Len(arg_input) :
              /\ return_data.items[k] = PyObj(made[k])
              /\ made[k].data = arg_input[k]
              /\ made[k].origin = "create_obj"
        /\ Cardinality(Range(made)) = Len(arg_input)
        /\ OwnRows = Range(made)

C1_Witness ==
    /\ pc = "returned"
    /\ HooksDefault
    /\ Len(arg_input) >= 2
    /\ arg_input[1] # arg_input[2]

\* ------------------------------------------------------------------- C2
\* C2: when validate raises for the record at position k, whatever was
\* created for records 1..k-1, no row of the invocation is persisted once
\* mutate has ended, and the error that leaves mutate is the one validate
\* raised.
C2_ValidateFailureRollsBack ==
    RaisedBy("validate") =>
        /\ pc = "raised"
        /\ error = log[Len(log)].err
        /\ OwnRows = {}
        /\ txn = {}
        /\ ~txn_open

C2_Witness ==
    /\ RaisedBy("validate")
    /\ log[Len(log)].idx = 2
    /\ Len(made) = 1
    /\ error = "ValidationError"

C4_PermissionFailureBeforeTransaction ==
    (\E k \in Steps : log[k].step = "check_permissions" /\ log[k].out = "raise")
    =>
        /\ RaisedBy("check_permissions")
        /\ pc = "raised"
        /\ error = log[Len(log)].err
        /\ \A k \in Steps :
              log[k].step \notin InsideSteps \cup {"after_mutate"}
        /\ ~txn_open
        /\ txn = {}
        /\ made = <<>>
        /\ OwnRows = {}

C4_Witness ==
    /\ RaisedBy("check_permissions")
    /\ Len(input) > 0
    /\ pc = "raised"

\* ------------------------------------------------------------------- C5
\* The collection after the loop: per record, the object after_create_obj
\* returned if it returned one, else the object create_obj made.
PerObject ==
    [k \in 1..Len(post) |->
        IF post[k].kind # "none" THEN post[k] ELSE PyObj(made[k])]

\* C5: an object returned by after_create_obj takes the place of the created
\* object of its record, and a collection returned by before_save replaces
\* the whole collection, per-object substitutions included; the value under
\* the return field and the arguments of after_mutate are the result of the
\* last substitution.
C5_LastSubstitutionWins ==
    Called("commit") =>
        /\ saved.kind = "list" /\ Len(saved.items) > 0
              => return_data = PyList(saved.items)
        /\ ~(saved.kind = "list" /\ Len(saved.items) > 0)
              => /\ return_data.kind = "list"
                 /\ Len(return_data.items) = Len(input)
                 /\ \A k \in 1..Len(input) :
                       post[k].kind = "obj" => return_data.items[k] = post[k]
        /\ Called("after_mutate")
              => /\ am_arg.return_data = return_data
                 /\ am_arg.created_objs = return_data.items

C5_Witness ==
    /\ pc = "returned"
    /\ Len(post) = 2
    /\ post[1] = PyObj(SubstObj("after_create_obj"))
    /\ saved = PyList(<<PyObj(SubstObj("before_save"))>>)
    /\ return_data = saved

\* ------------------------------------------------------------------- C6
\* C6: the writes of one invocation are kept or undone together.  While
\* mutate runs inside the transaction nothing of it is persisted; a failure
\* of validate, create_obj, after_create_obj or before_save leaves no row of
\* the invocation; after the invocation the rows persisted number 0 or N.
C6_AllOrNothing ==
    /\ ~Terminal /\ ~Called("commit") => OwnRows = {}
    /\ \A st \in {"validate", "create_obj", "after_create_obj", "before_save"} :
          RaisedBy(st) => pc = "raised" /\ OwnRows = {} /\ txn = {}
    /\ Terminal =>
          /\ Cardinality(OwnRows) \in {0, Len(input)}
          /\ OwnRows \in {{}, Range(made)}
          /\ ~txn_open

C6_Witness ==
    /\ RaisedBy("before_save")
    /\ Len(made) = 2
    /\ OwnRows = {}

\* ------------------------------------------------------------------- C7
\* The steps of a call on n records, in order.
LoopSteps(n) ==
    [k \in 1..(3 * n) |->
        <<CASE k % 3 = 1 -> "validate"
            [] k % 3 = 2 -> "create_obj"
            [] OTHER -> "after_create_obj",
          (k + 2) \div 3>>]

FixedOrder(n) ==
    <<<<"before_mutate", 0>>, <<"login_check", 0>>, <<"check_permissions", 0>>,
      <<"atomic_enter", 0>>>>
    \o LoopSteps(n)
    \o <<<<"before_save", 0>>, <<"commit", 0>>, <<"after_mutate", 0>>>>

\* C7: the steps of a call occur in the fixed order before_mutate, login
\* check, check_permissions, then per record in input order validate,
\* create_obj, after_create_obj, then before_save once, the commit and
\* after_mutate; a step that raised is the last step of the call.
C7_FixedOrder ==
    LET order == FixedOrder(Len(input)) IN
    /\ Len(log) <= Len(order)
    /\ \A k \in Steps :
          /\ <<log[k].step, log[k].idx>> = order[k]
          /\ log[k].out = "raise" => k = Len(log) /\ pc = "raised"
    /\ pc = "raised" => Len(log) > 0 /\ log[Len(log)].out = "raise"
    /\ pc = "returned" => Len(log) = Len(order)

C7_Witness ==
    /\ pc = "returned"
    /\ Len(input) = 2
    /\ Len(log) = 13

\* ------------------------------------------------------------------- C8
\* C8: after_mutate is called after the commit, so an error it raises
\* leaves mutate while all N rows of the invocation stay persisted, and no
\* other path ends in an error with rows of the invocation persisted.
C8_AfterMutateErrorKeepsWrites ==
    /\ Called("after_mutate") => Called("commit") /\ ~txn_open
    /\ RaisedBy("after_mutate") =>
          /\ pc = "raised"
          /\ error = log[Len(log)].err
          /\ OwnRows = Range(made)
          /\ Cardinality(OwnRows) = Len(input)
    /\ pc = "raised" /\ OwnRows # {} => RaisedBy("after_mutate")

C8_Witness ==
    /\ RaisedBy("after_mutate")
    /\ Cardinality(OwnRows) = 2
    /\ error = "ValueError"

C10_SubstituteOnlyWhenTruthy ==
    /\ \A k \in Steps :
          log[k].step = "before_mutate" /\ log[k].out \in {"none", "empty"}
             => input = arg_input
    /\ \A k \in 1..Len(post) :
          /\ k <= Len(created_objs) /\ ~Truthy(saved)
                => created_objs[k] =
                     IF post[k] = PyNone THEN PyObj(made[k]) ELSE post[k]
    /\ Called("before_save") /\ ~RaisedBy("before_save") /\ ~Truthy(saved)
          => /\ created_objs = PerObject
             /\ Len(created_objs) = Len(input)
    /\ Called("commit") /\ ~Truthy(saved) => return_data = PyList(PerObject)

C10_Witness ==
    /\ pc = "returned"
    /\ saved = PyList(<<>>)
    /\ Len(return_data.items) = 2
    /\ post[1] = PyFalse
    /\ post[2] = PyNone
    /\ log[1].out = "empty"

====
